---------------------------- MODULE Spec2Model ----------------------------
(***************************************************************************)
(* The job posting form of src/components/JobPostingForm.tsx: the zod      *)
(* schema formSchema, the form values held by react-hook-form, the local   *)
(* state showCustomAge, and the handlers wired to the widgets.             *)
(*                                                                         *)
(* Optional values (ageFrom, ageTo, applicationDeadline) are sequences of  *)
(* length at most one: << >> is JavaScript's undefined, <<v>> is v.        *)
(* viberNumber and the text typed into the number inputs are sequences of  *)
(* one-character strings, so that the regular expression and parseInt are  *)
(* computed character by character. Dates are day numbers; the clock       *)
(* counts half days, so that an instant is either exactly a midnight or    *)
(* strictly inside a day.                                                  *)
(***************************************************************************)
EXTENDS Integers, Sequences, FiniteSets, TLC

VARIABLES
    values,          \* react-hook-form's form values (the draft)
    showCustomAge,   \* useState(false), line 76
    radioValue,      \* the item the uncontrolled RadioGroup shows as checked
    maxDate,         \* maxDate of the latest render, lines 78-79
    now,             \* the clock (new Date()), in half days
    toastCount,      \* calls of toast() so far
    onSuccessCalls,  \* calls of the onSuccess prop so far
    effects,         \* side effects of the latest handler, in order
    lastOp,          \* the handler that ran last
    onSuccess        \* whether the caller supplied the onSuccess prop

vars == <<values, showCustomAge, radioValue, maxDate, now,
          toastCount, onSuccessCalls, effects, lastOp, onSuccess>>

-----------------------------------------------------------------------------
(* Bounds of the exploration *)

MaxSubmits == 2      \* successful submissions explored
MaxNow == 4          \* the clock stops after this many half days

(* Program constants *)

MinJobTitle == 3
MinCompany == 2
MinLocation == 2
MinJobDescription == 20
MinAge == 18
MaxAge == 100
MinViberDigits == 7
MaxViberDigits == 9
DeadlineDays == 60

HalfDaysPerDay == 2   \* resolution of the clock: midnight, and later that day

Undefined == << >>

Present(x) == x # Undefined

Some(x) == <<x>>

Digits == {"0", "1", "2", "3", "4", "5", "6", "7", "8", "9"}

benefitsOptions ==
    <<"no-resume", "no-experience", "seniors-welcome", "training-provided",
      "flexible-hours", "immediate-start", "students-ok">>

BenefitIds == {benefitsOptions[i] : i \in 1..Len(benefitsOptions)}

AgeRequirements == {"any", "18-35", "custom"}

-----------------------------------------------------------------------------
(* formSchema, lines 34-57.  A zod parser returns the issues it found and  *)
(* a status: "valid", "dirty" (a check failed on a value of the right      *)
(* type) or "aborted" (the value has the wrong type).                      *)

Issue(path, code) == [path |-> path, code |-> code]

\* z.string().min(n, message)
StringMin(path, v, n) ==
    IF Len(v) < n THEN <<Issue(path, "too_small")>> ELSE << >>

\* z.number().min(18).max(100).optional()
OptionalAge(path, v) ==
    IF ~Present(v) THEN << >>
    ELSE (IF v[1] < MinAge THEN <<Issue(path, "too_small")>> ELSE << >>)
         \o (IF v[1] > MaxAge THEN <<Issue(path, "too_big")>> ELSE << >>)

\* z.date({ required_error }): undefined is not a Date
RequiredDate(path, v) ==
    IF ~Present(v) THEN <<Issue(path, "invalid_type")>> ELSE << >>

\* \d{7,9}$ from position i: the number of digits from i to the end of s,
\* or -1 when a character that is no digit comes first
RECURSIVE DigitsToEnd(_, _)
DigitsToEnd(s, i) ==
    IF i > Len(s) THEN 0
    ELSE IF s[i] \notin Digits THEN -1
    ELSE LET rest == DigitsToEnd(s, i + 1)
         IN IF rest < 0 THEN -1 ELSE rest + 1

\* ViberRegex without the "$": /^09\d{7,9}/ also matches a longer text
ViberRegexUnanchored(s) ==
    /\ Len(s) >= 2 + MinViberDigits
    /\ s[1] = "0"
    /\ s[2] = "9"
    /\ \A i \in 3..(2 + MinViberDigits) : s[i] \in Digits

\* /^09\d{7,9}$/.test(s)
ViberRegex(s) ==
    /\ Len(s) >= 2
    /\ s[1] = "0"
    /\ s[2] = "9"
    /\ LET n == DigitsToEnd(s, 3)
       IN n >= MinViberDigits /\ n <= MaxViberDigits

\* z.string().regex(..., message)
ViberNumber(path, v) ==
    IF ViberRegex(v) THEN << >> ELSE <<Issue(path, "invalid_string")>>

\* the function given to .refine, lines 49-54
AgeRangeRefinement(data) ==
    IF data.ageRequirement = "custom"
    THEN /\ Present(data.ageFrom)
         /\ Present(data.ageTo)
         /\ data.ageFrom[1] <= data.ageTo[1]
    ELSE TRUE

\* z.object({...}): every key is parsed, in the order of the shape
ObjectIssues(data) ==
    StringMin("jobTitle", data.jobTitle, MinJobTitle)
    \o StringMin("company", data.company, MinCompany)
    \o StringMin("location", data.location, MinLocation)
    \o StringMin("jobDescription", data.jobDescription, MinJobDescription)
    \o OptionalAge("ageFrom", data.ageFrom)
    \o OptionalAge("ageTo", data.ageTo)
    \o RequiredDate("applicationDeadline", data.applicationDeadline)
    \o ViberNumber("viberNumber", data.viberNumber)

\* The object is aborted when a key has the wrong type.  The form only ever
\* holds strings in the string fields, numbers or undefined in the age
\* fields, one of the three enum values and an array of strings, so the one
\* key that can abort is applicationDeadline (undefined until a day is picked).
ObjectAborted(data) == ~Present(data.applicationDeadline)

\* .refine(check, { message, path: ["ageTo"] }): zod runs a refinement on the
\* parsed object, so it is skipped when the object is aborted
RefineIssues(data) ==
    IF ObjectAborted(data) THEN << >>
    ELSE IF AgeRangeRefinement(data) THEN << >>
    ELSE <<Issue("ageTo", "custom")>>

formSchema(data) == ObjectIssues(data) \o RefineIssues(data)

Success(data) == formSchema(data) = << >>

\* zodResolver: the first issue of each path becomes that field's error
FirstCode(issues, path) ==
    LET i == CHOOSE k \in 1..Len(issues) :
                 /\ issues[k].path = path
                 /\ \A j \in 1..(k - 1) : issues[j].path # path
    IN issues[i].code

zodResolver(data) ==
    LET issues == formSchema(data)
        paths == {issues[k].path : k \in 1..Len(issues)}
    IN [p \in paths |-> FirstCode(issues, p)]

NoErrors == [p \in {} |-> ""]

-----------------------------------------------------------------------------
(* The form state *)

\* defaultValues, lines 83-92: ageFrom, ageTo and applicationDeadline are
\* not listed, so they are undefined
defaultValues ==
    [jobTitle |-> "", company |-> "", location |-> "", jobDescription |-> "",
     salary |-> "", ageRequirement |-> "any", ageFrom |-> Undefined,
     ageTo |-> Undefined, benefits |-> << >>,
     applicationDeadline |-> Undefined, viberNumber |-> << >>]

\* maxDate = new Date(); maxDate.setDate(maxDate.getDate() + 60)
MaxDateAt(t) == t + DeadlineDays * HalfDaysPerDay

\* the midnight that starts day d, on the clock
Midnight(d) == d * HalfDaysPerDay

Today == now \div HalfDaysPerDay

Init ==
    /\ values = defaultValues
    /\ showCustomAge = FALSE
    /\ radioValue = "any"
    /\ now = 1
    /\ maxDate = MaxDateAt(now)
    /\ toastCount = 0
    /\ onSuccessCalls = 0
    /\ effects = << >>
    /\ lastOp = "mount"
    /\ onSuccess \in BOOLEAN

\* what every handler but handleSubmit leaves alone
Handled(op) ==
    /\ lastOp' = op
    /\ effects' = << >>
    /\ UNCHANGED <<now, toastCount, onSuccessCalls, onSuccess>>

\* {...field} on an Input or Textarea: field.onChange stores the text
FieldChange(name, v) ==
    /\ values' = [values EXCEPT ![name] = v]
    /\ Handled("onChange")
    /\ UNCHANGED <<showCustomAge, radioValue, maxDate>>

JobTitleChange(v) == FieldChange("jobTitle", v)

CompanyChange(v) == FieldChange("company", v)

LocationChange(v) == FieldChange("location", v)

JobDescriptionChange(v) == FieldChange("jobDescription", v)

SalaryChange(v) == FieldChange("salary", v)

ViberNumberChange(v) == FieldChange("viberNumber", v)

\* AgeRequirementChange that also empties the age range when it is hidden
AgeRequirementChangeClearsRange(value) ==
    /\ value # radioValue
    /\ radioValue' = value
    /\ values' = IF value = "custom"
                 THEN [values EXCEPT !.ageRequirement = value]
                 ELSE [values EXCEPT !.ageRequirement = value,
                                     !.ageFrom = Undefined, !.ageTo = Undefined]
    /\ showCustomAge' = (value = "custom")
    /\ maxDate' = IF showCustomAge' # showCustomAge THEN MaxDateAt(now) ELSE maxDate
    /\ Handled("onValueChange")

\* RadioGroup onValueChange, lines 189-194.  The group is uncontrolled
\* (defaultValue), so it reports a change only when another item than the
\* one it shows is picked.  setShowCustomAge re-renders the component when
\* the state changes, which computes maxDate anew.
AgeRequirementChange(value) ==
    /\ value # radioValue
    /\ radioValue' = value
    /\ values' = [values EXCEPT !.ageRequirement = value]
    /\ showCustomAge' = (value = "custom")
    /\ maxDate' = IF showCustomAge' # showCustomAge THEN MaxDateAt(now) ELSE maxDate
    /\ Handled("onValueChange")

DigitValue(c) == CHOOSE n \in 0..9 : ToString(n) = c

\* the value of the longest run of digits of s that starts at i
RECURSIVE DigitRun(_, _, _)
DigitRun(s, i, acc) ==
    IF i > Len(s) \/ s[i] \notin Digits THEN acc
    ELSE DigitRun(s, i + 1, acc * 10 + DigitValue(s[i]))

\* parseInt(text): an optional sign, then the leading digits; NaN (here
\* Undefined) when there is no digit
parseInt(s) ==
    LET signed == Len(s) >= 1 /\ s[1] \in {"-", "+"}
        first == IF signed THEN 2 ELSE 1
    IN IF first > Len(s) \/ s[first] \notin Digits THEN Undefined
       ELSE IF signed /\ s[1] = "-" THEN Some(0 - DigitRun(s, first, 0))
       ELSE Some(DigitRun(s, first, 0))

\* parseInt(e.target.value) || undefined: NaN and 0 are falsy
ParsedAge(text) ==
    LET n == parseInt(text)
    IN IF ~Present(n) \/ n[1] = 0 THEN Undefined ELSE n

\* onChange of the "From" and "To" inputs, lines 243 and 263; the inputs
\* are rendered only while showCustomAge holds, line 228
AgeChange(name, text) ==
    /\ showCustomAge
    /\ values' = [values EXCEPT ![name] = ParsedAge(text)]
    /\ Handled("onChange")
    /\ UNCHANGED <<showCustomAge, radioValue, maxDate>>

AgeFromChange(text) == AgeChange("ageFrom", text)

AgeToChange(text) == AgeChange("ageTo", text)

includes(list, id) == \E i \in 1..Len(list) : list[i] = id

\* field.value.filter((value) => value !== id)
filter(list, id) == SelectSeq(list, LAMBDA value : value # id)

\* CheckedChange whose unchecked branch drops the result of filter
CheckedChangeKeepsUnchecked(list, id, checked) ==
    IF checked THEN Append(list, id) ELSE list

\* the body of onCheckedChange, lines 299-307
CheckedChange(list, id, checked) ==
    IF checked THEN Append(list, id) ELSE filter(list, id)

\* a click on the checkbox of benefit id: the Checkbox is controlled by
\* checked={field.value.includes(id)} and reports the opposite state
Toggled(list, id) == CheckedChange(list, id, ~includes(list, id))

BenefitCheckedChange(id) ==
    /\ values' = [values EXCEPT !.benefits = Toggled(@, id)]
    /\ Handled("onCheckedChange")
    /\ UNCHANGED <<showCustomAge, radioValue, maxDate>>

\* Calendar disabled, lines 354-356: date < new Date() || date > maxDate
Disabled(d) == Midnight(d) < now \/ Midnight(d) > maxDate

\* Calendar mode="single" onSelect={field.onChange}: a click on an enabled
\* day selects it, a click on the selected day clears the selection
DeadlineSelect(d) ==
    /\ ~Disabled(d)
    /\ values' = [values EXCEPT
                    !.applicationDeadline = IF @ = Some(d) THEN Undefined ELSE Some(d)]
    /\ Handled("onSelect")
    /\ UNCHANGED <<showCustomAge, radioValue, maxDate>>

\* the body of the component runs again (a re-render): lines 78-79
Render ==
    /\ maxDate # MaxDateAt(now)
    /\ maxDate' = MaxDateAt(now)
    /\ lastOp' = "render"
    /\ effects' = << >>
    /\ UNCHANGED <<values, showCustomAge, radioValue, now, toastCount,
                   onSuccessCalls, onSuccess>>

\* time passes while the page is open
Tick ==
    /\ now < MaxNow
    /\ now' = now + 1
    /\ lastOp' = "tick"
    /\ effects' = << >>
    /\ UNCHANGED <<values, showCustomAge, radioValue, maxDate, toastCount,
                   onSuccessCalls, onSuccess>>

\* the side effects of onSubmit, lines 95-103, in order
onSubmitEffects(provided) ==
    <<"console.log", "toast", "form.reset">>
    \o (IF provided THEN <<"onSuccess">> ELSE << >>)

\* onSubmit with form.reset(data): the form keeps the submitted values
onSubmitKeepsValues ==
    /\ toastCount < MaxSubmits
    /\ toastCount' = toastCount + 1
    /\ values' = values
    /\ onSuccessCalls' = IF onSuccess THEN onSuccessCalls + 1 ELSE onSuccessCalls
    /\ effects' = onSubmitEffects(onSuccess)
    /\ UNCHANGED <<showCustomAge, radioValue, maxDate>>

\* onSubmit, lines 95-103: form.reset() restores defaultValues; showCustomAge
\* and the radio group are not part of the form state
onSubmit ==
    /\ toastCount < MaxSubmits
    /\ toastCount' = toastCount + 1
    /\ values' = defaultValues
    /\ onSuccessCalls' = IF onSuccess THEN onSuccessCalls + 1 ELSE onSuccessCalls
    /\ effects' = onSubmitEffects(onSuccess)
    /\ UNCHANGED <<showCustomAge, radioValue, maxDate>>

\* handleSubmit that calls onSubmit whatever the resolver reports
handleSubmitIgnoresErrors ==
    /\ lastOp' = "handleSubmit"
    /\ UNCHANGED <<now, onSuccess>>
    /\ onSubmit

\* form.handleSubmit(onSubmit), line 107: onSubmit runs only when the
\* resolver reports no error; otherwise zodResolver(values) is what the form
\* shows, and nothing else happens
handleSubmit ==
    /\ lastOp' = "handleSubmit"
    /\ UNCHANGED <<now, onSuccess>>
    /\ IF zodResolver(values) = NoErrors
       THEN onSubmit
       ELSE /\ effects' = << >>
            /\ UNCHANGED <<values, showCustomAge, radioValue, maxDate,
                           toastCount, onSuccessCalls>>

-----------------------------------------------------------------------------
(* What the user types and picks *)

TenDigits == <<"1", "2", "3", "4", "5", "6", "7", "8", "9", "0", "1", "2">>

\* "09" followed by the first n digits of 123456789012
Viber09(n) == <<"0", "9">> \o SubSeq(TenDigits, 1, n)

MaxViberTyped == 10   \* digits typed after "09"

ViberTexts ==
    {Viber09(n) : n \in 0..MaxViberTyped}
    \cup { << >>,
           <<"0", "8", "1", "2", "3", "4", "5", "6", "7", "8", "9">>,
           <<"0", "9", "1", "2", "3", "a", "5", "6", "7", "8">>,
           <<"+", "0", "9", "1", "2", "3", "4", "5", "6", "7">>,
           <<"0", "9", "1", "2", "3", "4", "5", "6", "7", " ">>,
           <<"9", "0", "1", "2", "3", "4", "5", "6", "7">> }

AgeTexts ==
    { << >>, <<"0">>, <<"1", "7">>, <<"1", "8">>, <<"1", "9">>,
      <<"1", "0", "1">>, <<"1", "8", ".", "5">>, <<"-", "5">> }

JobTitleTexts == {"", "Hr", "Dev"}

CompanyTexts == {"", "A", "AB"}

LocationTexts == {"", "Y", "YG"}

JobDescriptionTexts == {"", "Sells phones daily.", "Sells phones daily!!"}

SalaryTexts == {"", "300,000 MMK"}

\* the days around the edges of the calendar's window
DeadlineDaysShown ==
    {d \in {Today - 1, Today, Today + 1, Today + DeadlineDays - 1,
            Today + DeadlineDays, Today + DeadlineDays + 1} : d >= 0}

-----------------------------------------------------------------------------
(* The form driven through every widget, with one valid text per field *)

Next ==
    \/ \E v \in {"", "Dev"} : JobTitleChange(v)
    \/ \E v \in {"", "AB"} : CompanyChange(v)
    \/ \E v \in {"", "YG"} : LocationChange(v)
    \/ \E v \in {"", "Sells phones daily!!"} : JobDescriptionChange(v)
    \/ \E v \in SalaryTexts : SalaryChange(v)
    \/ \E v \in {<< >>, Viber09(8)} : ViberNumberChange(v)
    \/ \E value \in AgeRequirements : AgeRequirementChange(value)
    \/ \E text \in {<< >>, <<"1", "8">>} : AgeFromChange(text)
    \/ \E text \in {<< >>, <<"1", "9">>} : AgeToChange(text)
    \/ \E id \in {benefitsOptions[1]} : BenefitCheckedChange(id)
    \/ \E d \in {Today + 1} : DeadlineSelect(d)
    \/ handleSubmit

Spec == Init /\ [][Next]_vars

-----------------------------------------------------------------------------
(* The age requirement: every text of AgeTexts typed into "From" and "To" *)

NextAge ==
    \/ \E v \in {"", "Dev"} : JobTitleChange(v)
    \/ \E v \in {"", "AB"} : CompanyChange(v)
    \/ \E v \in {"", "YG"} : LocationChange(v)
    \/ \E v \in {"", "Sells phones daily!!"} : JobDescriptionChange(v)
    \/ \E v \in {Viber09(8)} : ViberNumberChange(v)
    \/ \E value \in AgeRequirements : AgeRequirementChange(value)
    \/ \E text \in AgeTexts : AgeFromChange(text)
    \/ \E text \in AgeTexts : AgeToChange(text)
    \/ \E d \in {Today + 1} : DeadlineSelect(d)
    \/ handleSubmit

SpecAge == Init /\ [][NextAge]_vars

(* The deadline: the days at the edges of the calendar's window, picked    *)
(* while time passes                                                       *)

NextDeadline ==
    \/ \E v \in {"Dev"} : JobTitleChange(v)
    \/ \E v \in {"AB"} : CompanyChange(v)
    \/ \E v \in {"YG"} : LocationChange(v)
    \/ \E v \in {"Sells phones daily!!"} : JobDescriptionChange(v)
    \/ \E v \in {Viber09(8)} : ViberNumberChange(v)
    \/ \E d \in DeadlineDaysShown : DeadlineSelect(d)
    \/ Tick
    \/ Render
    \/ handleSubmit

SpecDeadline == Init /\ [][NextDeadline]_vars

(* The Viber number: every text of ViberTexts *)

NextViber ==
    \/ \E v \in JobTitleTexts : JobTitleChange(v)
    \/ \E v \in CompanyTexts : CompanyChange(v)
    \/ \E v \in LocationTexts : LocationChange(v)
    \/ \E v \in JobDescriptionTexts : JobDescriptionChange(v)
    \/ \E v \in ViberTexts : ViberNumberChange(v)
    \/ \E d \in {Today + 1} : DeadlineSelect(d)
    \/ handleSubmit

SpecViber == Init /\ [][NextViber]_vars

(* The benefits: every checkbox, in every order *)

NextBenefits ==
    \/ \E v \in {"", "Dev"} : JobTitleChange(v)
    \/ \E id \in BenefitIds : BenefitCheckedChange(id)
    \/ handleSubmit

SpecBenefits == Init /\ [][NextBenefits]_vars

-----------------------------------------------------------------------------
(* The rules of the data model, as the specification states them *)

TextRulesHold(data) ==
    /\ Len(data.jobTitle) >= 3
    /\ Len(data.company) >= 2
    /\ Len(data.location) >= 2
    /\ Len(data.jobDescription) >= 20

\* "09" and then 7, 8 or 9 decimal digits, and nothing else
Is09Number(s) ==
    /\ Len(s) \in {9, 10, 11}
    /\ s[1] = "0"
    /\ s[2] = "9"
    /\ \A i \in 3..Len(s) : s[i] \in Digits

\* the window (today, today + 60 days]
InWindow(deadline) ==
    /\ Present(deadline)
    /\ deadline[1] > Today
    /\ deadline[1] <= Today + 60

AgeInRange(age) == Present(age) => (age[1] >= 18 /\ age[1] <= 100)

\* the fields that break their own rule
FailingFields(data) ==
    {f \in {"jobTitle"} : Len(data.jobTitle) < 3}
    \cup {f \in {"company"} : Len(data.company) < 2}
    \cup {f \in {"location"} : Len(data.location) < 2}
    \cup {f \in {"jobDescription"} : Len(data.jobDescription) < 20}
    \cup {f \in {"ageFrom"} : ~AgeInRange(data.ageFrom)}
    \cup {f \in {"ageTo"} : ~AgeInRange(data.ageTo)}
    \cup {f \in {"applicationDeadline"} : ~Present(data.applicationDeadline)}
    \cup {f \in {"viberNumber"} : ~Is09Number(data.viberNumber)}

\* the custom-age cross-field rule is broken
CustomRangeBroken(data) ==
    /\ data.ageRequirement = "custom"
    /\ \/ ~Present(data.ageFrom)
       \/ ~Present(data.ageTo)
       \/ data.ageFrom[1] > data.ageTo[1]

IsInitialDraft(data) ==
    /\ data.jobTitle = "" /\ data.company = "" /\ data.location = ""
    /\ data.jobDescription = "" /\ data.salary = ""
    /\ data.viberNumber = << >>
    /\ data.ageRequirement = "any"
    /\ data.benefits = << >>
    /\ ~Present(data.ageFrom) /\ ~Present(data.ageTo)
    /\ ~Present(data.applicationDeadline)

Position(seq, x) == CHOOSE i \in 1..Len(seq) : seq[i] = x

Count(seq, x) == Cardinality({i \in 1..Len(seq) : seq[i] = x})

AsSet(seq) == {seq[i] : i \in 1..Len(seq)}

-----------------------------------------------------------------------------
(* The claims *)

\* C1: when ageRequirement is "any" or "18-35" and every other field
\* satisfies its own rule, the validation of a submission succeeds whatever
\* ageFrom and ageTo hold.
C1_StaleAgeRangeIgnored ==
    ( /\ lastOp = "handleSubmit"
      /\ values.ageRequirement \in {"any", "18-35"}
      /\ TextRulesHold(values)
      /\ InWindow(values.applicationDeadline)
      /\ Is09Number(values.viberNumber) )
    => Success(values)

\* C2: a submission is accepted only if applicationDeadline lies in the
\* window (today, today + 60 days] at the time of the submission.
C2_DeadlineWindowAtSubmission ==
    [][(lastOp' = "handleSubmit" /\ toastCount' # toastCount)
         => InWindow(values.applicationDeadline)]_vars

\* C3: with ageRequirement "custom", validation fails unless ageFrom and
\* ageTo are both present and ageFrom <= ageTo, and that failure is reported
\* on ageTo and on no other field.
C3_CustomRangeErrorOnAgeTo ==
    (lastOp = "handleSubmit" /\ CustomRangeBroken(values))
    => /\ ~Success(values)
       /\ "ageTo" \in DOMAIN zodResolver(values)
       /\ \A k \in 1..Len(formSchema(values)) :
             formSchema(values)[k].code = "custom"
                => formSchema(values)[k].path = "ageTo"

\* C4: submitting a fully valid draft resets every field to its initial
\* value (texts "", ageRequirement "any", benefits empty, ageFrom, ageTo and
\* applicationDeadline absent), shows the notification once, and calls the
\* completion callback, when one is supplied, exactly once and after the
\* reset.
C4_ValidSubmitResetsThenCallsBack ==
    [][(lastOp' = "handleSubmit" /\ Success(values))
         => /\ IsInitialDraft(values')
            /\ toastCount' = toastCount + 1
            /\ Count(effects', "form.reset") = 1
            /\ onSuccess =>
                 /\ onSuccessCalls' = onSuccessCalls + 1
                 /\ Count(effects', "onSuccess") = 1
                 /\ Position(effects', "form.reset") < Position(effects', "onSuccess")
            /\ ~onSuccess => onSuccessCalls' = onSuccessCalls]_vars

C4_Witness ==
    /\ lastOp = "handleSubmit"
    /\ onSuccess
    /\ toastCount = 1
    /\ onSuccessCalls = 1
    /\ IsInitialDraft(values)
    /\ effects = <<"console.log", "toast", "form.reset", "onSuccess">>

C6_AllFailuresReportedTogether ==
    ( /\ lastOp = "handleSubmit"
      /\ FailingFields(values) # {}
      /\ CustomRangeBroken(values) )
    => /\ FailingFields(values) \subseteq DOMAIN zodResolver(values)
       /\ "ageTo" \in DOMAIN zodResolver(values)

\* C7: viberNumber passes validation if and only if it is "09" followed by
\* 7, 8 or 9 digits and nothing else; 0912345678 and 091234567 pass,
\* 09123456, 08123456789, the empty string and "09" with 10 digits do not.
C7_ViberNumberPattern ==
    LET s == values.viberNumber
        passes == "viberNumber" \notin DOMAIN zodResolver(values)
    IN /\ passes <=> Is09Number(s)
       /\ s = <<"0", "9", "1", "2", "3", "4", "5", "6", "7", "8">> => passes
       /\ s = <<"0", "9", "1", "2", "3", "4", "5", "6", "7">> => passes
       /\ s = <<"0", "9", "1", "2", "3", "4", "5", "6">> => ~passes
       /\ s = <<"0", "8", "1", "2", "3", "4", "5", "6", "7", "8", "9">> => ~passes
       /\ s = << >> => ~passes
       /\ (Len(s) >= 12 /\ s[1] = "0" /\ s[2] = "9") => ~passes

C7_Witness ==
    /\ lastOp = "handleSubmit"
    /\ values.viberNumber = <<"0", "9", "1", "2", "3", "4", "5", "6", "7", "8">>
    /\ values.jobTitle = "Hr"
    /\ DOMAIN zodResolver(values) = {"jobTitle"}

\* C8: toggling a benefit id adds it when absent and removes it when
\* present, so toggling it twice gives back the same set of ids; benefits
\* never holds an id twice nor an id outside the seven benefit ids.
C8_BenefitToggle ==
    LET b == values.benefits
    IN /\ Cardinality(AsSet(b)) = Len(b)
       /\ AsSet(b) \subseteq BenefitIds
       /\ Cardinality(BenefitIds) = 7
       /\ \A id \in BenefitIds :
             /\ AsSet(Toggled(b, id)) =
                  IF id \in AsSet(b) THEN AsSet(b) \ {id} ELSE AsSet(b) \cup {id}
             /\ AsSet(Toggled(Toggled(b, id), id)) = AsSet(b)
             /\ Cardinality(AsSet(Toggled(b, id))) = Len(Toggled(b, id))

C8_Witness ==
    /\ lastOp = "onCheckedChange"
    /\ values.benefits = <<"students-ok", "no-resume">>

\* C9: selecting an ageRequirement value changes ageRequirement and the
\* visibility of the age range and nothing else of the draft: ageFrom and
\* ageTo survive a switch away from "custom" and back.
C9_AgeRequirementChangeFrame ==
    [][lastOp' = "onValueChange"
         => /\ [values' EXCEPT !.ageRequirement = values.ageRequirement] = values
            /\ values'.ageRequirement = radioValue'
            /\ showCustomAge' = (values'.ageRequirement = "custom")
            /\ toastCount' = toastCount
            /\ onSuccessCalls' = onSuccessCalls]_vars

C9_Witness ==
    /\ lastOp = "onValueChange"
    /\ values.ageRequirement = "custom"
    /\ values.ageFrom = Some(18)
    /\ values.ageTo = Some(19)

\* C10: in every reachable state the age-range fields are visible if and
\* only if ageRequirement is "custom".
C10_VisibleIffCustom ==
    showCustomAge <=> (values.ageRequirement = "custom")

=============================================================================
